---- MODULE Spec2Model ----
(***************************************************************************)
(* OrionPlus motion core: MachineCore (Sources/App/Src/MachineCore.cpp),   *)
(* the StepTicker interface (inline members declared in the header text    *)
(* carried by Sources/App/Src/gpio.cpp), the Conveyor queue and the        *)
(* FreeRTOS timer service the MachineCore posts its timer commands to.     *)
(*                                                                         *)
(* Execution contexts: one foreground context (the callers of the          *)
(* MachineCore / StepTicker / Conveyor API), the step-tick interrupt,      *)
(* which preempts the foreground between any two statements and runs to    *)
(* completion, and the timer daemon task, which runs the timer callbacks.  *)
(***************************************************************************)
EXTENDS Integers, Sequences, FiniteSets, TLC

(* ------------------------------ bounds -------------------------------- *)
\* total number of blocks the producer pushes in one run
MaxBlocks == 4
\* steps of every block (the tick count a block needs to complete)
StepsPerBlock == 2
\* highest axis the motion pipeline enables in the machine specification
MaxAxis == 0
\* capacity of the Conveyor ring buffer (fixed at configuration time)
QueueCapacity == 3
\* length of the FreeRTOS timer command queue (configTIMER_QUEUE_LENGTH)
TimerQueueLength == 3
\* idle-timeout callbacks counted since the last Start/Stop call
MaxFires == 2
\* polls of the user buttons that get past the startup test in one run
MaxPolls == 6

(* ----------------------------- constants ------------------------------ *)
\* width of uint8_t motor_enable_bits
MotorBitsWidth == 8

\* the count a debounce counter is compared with
DebounceLimit == 2

NoBlock == 0
AllAxes == 0 .. (MotorBitsWidth - 1)
MachineAxes == 0 .. MaxAxis
Slots == 0 .. (QueueCapacity - 1)
\* the user buttons, by the name of their event bit
Buttons == {"BTN_START_EVENT", "BTN_HOLD_EVENT", "BTN_ABORT_EVENT"}

VARIABLES
    \* MachineCore
    m_startup_finished, m_system_halted,
    \* stepper driver pins: STEP_ENABLE (shared by all axes) and STEP_RESET
    stepper_drivers_enabled, stepper_drivers_reset,
    \* StepTicker
    motor_enable_bits, current_block, steps_done, ticker_started,
    \* Conveyor ring buffer
    queue_buf, head_i, tail_i, q_count,
    \* program position of the foreground inside Halt() / StopStepperIdleTimer()
    pc_halt, pc_stop,
    \* FreeRTOS timer service: command queue and the three timers' activity
    timer_cmd_queue, idle_timer_active, startup_timer_active,
    buttons_timer_active,
    \* the timer daemon is inside its loop over the received commands
    daemon_draining,
    \* history: ids handed out, last id removed by advance_front, a push
    \* was refused, last foreground or daemon operation
    next_id, last_popped, rejected, last_op,
    \* history for Halt: state left by the previous Halt(), Halt() calls in a
    \* row, places of the running Halt() a step-tick came in at, in-flight
    \* block at entry
    halt_snap, halts_in_row, isr_in_halt, halt_inflight,
    \* queue depth the last flush_queue() of a Halt() found (-1: no flush since
    \* the last other foreground call)
    flush_depth,
    \* history for the motors: axes enabled and not disabled since
    enabled_axes,
    \* history for the idle timer: the last call was a Start (armed), a
    \* returned Stop (in force); callbacks since that call or since the
    \* daemon last started the timer; parity of the Start calls
    idle_armed, stop_in_force, idle_fires, idle_epoch,
    \* StepTicker outputs: step pins high, direction pins, and the pulses to
    \* lower on the next unstep tick
    step_pins, dir_pins, unstep_bits,
    \* read_user_buttons_callback: static debounce_cntrs[3], and the bits set
    \* in the event group m_input_events_group
    debounce_cntrs, m_input_events_group,
    \* history for the buttons: polls that got past the startup test, per
    \* button the pressed reads in a row, buttons read released at least
    \* once, events set by the last poll, levels the last callback found
    polls, pressed_run, released_seen, raised, last_levels,
    \* history for NotifyOfEvent: arguments, pin levels and result of the
    \* last call
    last_notify

coreVars == <<m_startup_finished, m_system_halted, stepper_drivers_enabled,
              stepper_drivers_reset>>
tickerVars == <<motor_enable_bits, current_block, steps_done, ticker_started>>
queueVars == <<queue_buf, head_i, tail_i, q_count>>
timerVars == <<timer_cmd_queue, idle_timer_active, startup_timer_active,
               buttons_timer_active, daemon_draining>>
pushHist == <<next_id, last_popped, rejected>>
haltHist == <<halt_snap, halts_in_row, isr_in_halt, halt_inflight,
              flush_depth>>
idleHist == <<idle_armed, stop_in_force, idle_fires, idle_epoch>>
pinVars == <<step_pins, dir_pins, unstep_bits>>
inputVars == <<debounce_cntrs, m_input_events_group>>
inputHist == <<polls, pressed_run, released_seen, raised, last_levels,
               last_notify>>
vars == <<m_startup_finished, m_system_halted, stepper_drivers_enabled,
          stepper_drivers_reset, motor_enable_bits, current_block, steps_done,
          ticker_started, queue_buf, head_i, tail_i, q_count, pc_halt, pc_stop,
          timer_cmd_queue, idle_timer_active, startup_timer_active,
          buttons_timer_active, daemon_draining, next_id, last_popped,
          rejected, last_op,
          halt_snap, halts_in_row, isr_in_halt, halt_inflight,
          flush_depth, enabled_axes, idle_armed, stop_in_force, idle_fires,
          idle_epoch, step_pins, dir_pins, unstep_bits, debounce_cntrs,
          m_input_events_group, polls, pressed_run, released_seen, raised,
          last_levels, last_notify>>

(* ------------------------ uint8_t bit arithmetic ---------------------- *)
Pow2(n) == 2 ^ n
BitOf(x, i) == (x \div Pow2(i)) % 2

RECURSIVE BitOrUpTo(_, _, _)
BitOrUpTo(x, y, i) ==
    IF i < 0 THEN 0
    ELSE (IF BitOf(x, i) = 1 \/ BitOf(y, i) = 1 THEN Pow2(i) ELSE 0)
         + BitOrUpTo(x, y, i - 1)

RECURSIVE BitAndUpTo(_, _, _)
BitAndUpTo(x, y, i) ==
    IF i < 0 THEN 0
    ELSE (IF BitOf(x, i) = 1 /\ BitOf(y, i) = 1 THEN Pow2(i) ELSE 0)
         + BitAndUpTo(x, y, i - 1)

\* x | y and x & y stored back into a uint8_t
BitOr8(x, y) == BitOrUpTo(x, y, MotorBitsWidth - 1)
BitAnd8(x, y) == BitAndUpTo(x, y, MotorBitsWidth - 1)
\* the low byte of ~x
BitNot8(x) == (Pow2(MotorBitsWidth) - 1) - (x % Pow2(MotorBitsWidth))

(* ------------------------ StepTicker inline members ------------------- *)
EnableMotorBits(bits, axis) == BitOr8(bits, Pow2(axis))

DisableMotorBitsWrongMask(bits, axis) == BitAnd8(bits, Pow2(axis))
DisableMotorBits(bits, axis) == BitAnd8(bits, BitNot8(Pow2(axis)))

DisableAllMotorsBits == 0

AreMotorsStillMoving == motor_enable_bits # 0

(* ------------------------------ Conveyor ------------------------------ *)
\* the queued blocks, front first
QueueSeq ==
    [i \in 1 .. q_count |-> queue_buf[(head_i + i - 1) % QueueCapacity]]

\* peek_front(): the front block, NoBlock when the queue is empty
peek_front == IF q_count = 0 THEN NoBlock ELSE queue_buf[head_i]

\* a fullness test that lets one block too many in
PushAcceptedOffByOne == q_count <= QueueCapacity

\* push(Block): appended at the tail; refused, with nothing changed, when full
PushAccepted == q_count < QueueCapacity

push_block(id) ==
    IF PushAccepted
    THEN /\ queue_buf' = [queue_buf EXCEPT ![tail_i] = id]
         /\ tail_i' = (tail_i + 1) % QueueCapacity
         /\ q_count' = q_count + 1
         /\ UNCHANGED head_i
    ELSE UNCHANGED queueVars

\* an advance_front() that steps the head over two entries
advance_front_skipping ==
    IF q_count = 0
    THEN UNCHANGED queueVars
    ELSE /\ queue_buf' = [i \in Slots |->
                             IF i \in {head_i, (head_i + 1) % QueueCapacity}
                                /\ (i = head_i \/ q_count > 1)
                             THEN NoBlock ELSE queue_buf[i]]
         /\ head_i' = (head_i + (IF q_count > 1 THEN 2 ELSE 1)) % QueueCapacity
         /\ q_count' = IF q_count > 1 THEN q_count - 2 ELSE 0
         /\ UNCHANGED tail_i

\* advance_front(): the front entry is removed and its slot freed; with
\* nothing queued (the queue was flushed under the ticker) nothing changes
advance_front ==
    IF q_count = 0
    THEN UNCHANGED queueVars
    ELSE /\ queue_buf' = [queue_buf EXCEPT ![head_i] = NoBlock]
         /\ head_i' = (head_i + 1) % QueueCapacity
         /\ q_count' = q_count - 1
         /\ UNCHANGED tail_i

\* a flush that rewinds the indices and keeps the entries and their count
flush_queue_indices_only ==
    /\ head_i' = 0
    /\ tail_i' = 0
    /\ UNCHANGED <<queue_buf, q_count>>

\* flush_queue(): every entry dropped, inside one critical section
flush_queue ==
    /\ queue_buf' = [i \in Slots |-> NoBlock]
    /\ head_i' = 0
    /\ tail_i' = 0
    /\ q_count' = 0

(* --------------------------- timer service ---------------------------- *)
\* a command sent with xTicksToWait = 0: dropped when the queue is full
PostCmd(q, c) == IF Len(q) < TimerQueueLength THEN Append(q, c) ELSE q

(* ------------------------------ history ------------------------------- *)
\* foreground is between API calls
FgReady == pc_halt = "idle" /\ pc_stop = "idle"

\* what Halt() is specified to leave behind
HaltView == <<m_system_halted, stepper_drivers_enabled, motor_enable_bits,
              QueueSeq>>

\* a foreground call other than Halt()
FgOther(op) ==
    /\ last_op' = op
    /\ halt_snap' = <<>>
    /\ halts_in_row' = 0
    /\ isr_in_halt' = {}
    /\ halt_inflight' = FALSE
    /\ flush_depth' = -1

(* ======================= foreground: MachineCore ====================== *)
\* MachineCore::Initialize(): Conveyor and StepTicker started, driver reset
\* asserted
Initialize ==
    /\ FgReady
    /\ ~ticker_started
    /\ ticker_started' = TRUE
    /\ stepper_drivers_reset' = TRUE
    /\ FgOther("Initialize")
    /\ UNCHANGED <<m_startup_finished, m_system_halted,
                   stepper_drivers_enabled, motor_enable_bits, current_block,
                   steps_done, queueVars, pc_halt, pc_stop, timerVars,
                   pushHist, enabled_axes, idleHist>>
    /\ UNCHANGED <<pinVars, inputVars, inputHist>>

\* OnIdle() without its m_startup_finished test
OnIdleUnguarded ==
    /\ FgReady
    /\ FgOther("on_idle")
    /\ UNCHANGED <<coreVars, tickerVars, queueVars, pc_halt, pc_stop,
                   timerVars, pushHist, enabled_axes, idleHist>>
    /\ UNCHANGED <<pinVars, inputVars, inputHist>>

\* an OnIdle() that also returns early once the machine is halted
OnIdleNotWhenHalted ==
    /\ FgReady
    /\ FgOther(IF m_startup_finished = FALSE \/ m_system_halted
               THEN "OnIdle_return" ELSE "on_idle")
    /\ UNCHANGED <<coreVars, tickerVars, queueVars, pc_halt, pc_stop,
                   timerVars, pushHist, enabled_axes, idleHist>>
    /\ UNCHANGED <<pinVars, inputVars, inputHist>>

\* MachineCore::OnIdle(): Conveyor::on_idle() is called once the startup
\* has finished, and not before
OnIdle ==
    /\ FgReady
    /\ FgOther(IF m_startup_finished = FALSE THEN "OnIdle_return"
               ELSE "on_idle")
    /\ UNCHANGED <<coreVars, tickerVars, queueVars, pc_halt, pc_stop,
                   timerVars, pushHist, enabled_axes, idleHist>>
    /\ UNCHANGED <<pinVars, inputVars, inputHist>>

\* Halt(), statement by statement; the step-tick interrupt and the timer
\* daemon run between any two of them.
\* m_system_halted = true; spindle and coolant stopped
HaltBegin ==
    /\ FgReady
    /\ m_system_halted' = TRUE
    /\ pc_halt' = "drivers"
    /\ last_op' = "Halt"
    /\ isr_in_halt' = {}
    /\ halt_inflight' = (current_block # NoBlock)
    /\ UNCHANGED <<m_startup_finished, stepper_drivers_enabled,
                   stepper_drivers_reset, tickerVars, queueVars, pc_stop,
                   timerVars, pushHist, halt_snap, halts_in_row,
                   flush_depth, enabled_axes, idleHist>>
    /\ UNCHANGED <<pinVars, inputVars, inputHist>>

\* Halt() inverting the driver enable line instead of releasing it
HaltDriversToggle ==
    /\ pc_halt = "drivers"
    /\ stepper_drivers_enabled' = ~stepper_drivers_enabled
    /\ pc_halt' = "motors"
    /\ UNCHANGED <<m_startup_finished, m_system_halted,
                   stepper_drivers_reset, tickerVars, queueVars, pc_stop,
                   timerVars, pushHist, last_op, haltHist, enabled_axes,
                   idleHist>>
    /\ UNCHANGED <<pinVars, inputVars, inputHist>>

\* m_step_ticker->EnableStepperDrivers(false)
HaltDrivers ==
    /\ pc_halt = "drivers"
    /\ stepper_drivers_enabled' = FALSE
    /\ pc_halt' = "motors"
    /\ UNCHANGED <<m_startup_finished, m_system_halted,
                   stepper_drivers_reset, tickerVars, queueVars, pc_stop,
                   timerVars, pushHist, last_op, haltHist, enabled_axes,
                   idleHist>>
    /\ UNCHANGED <<pinVars, inputVars, inputHist>>

\* Halt() without its DisableAllMotors() call
HaltMotorsForgotten ==
    /\ pc_halt = "motors"
    /\ pc_halt' = "flush"
    /\ UNCHANGED <<coreVars, tickerVars, queueVars, pc_stop, timerVars,
                   pushHist, last_op, haltHist, enabled_axes, idleHist>>
    /\ UNCHANGED <<pinVars, inputVars, inputHist>>

\* m_step_ticker->DisableAllMotors()
HaltMotors ==
    /\ pc_halt = "motors"
    /\ motor_enable_bits' = DisableAllMotorsBits
    /\ enabled_axes' = {}
    /\ pc_halt' = "flush"
    /\ UNCHANGED <<coreVars, current_block, steps_done, ticker_started,
                   queueVars, pc_stop, timerVars, pushHist, last_op,
                   haltHist, idleHist>>
    /\ UNCHANGED <<pinVars, inputVars, inputHist>>

\* Halt() dropping the pending blocks only and leaving the front block,
\* the one the ticker may hold, in the queue
HaltFlushKeepsFront ==
    /\ pc_halt = "flush"
    /\ IF q_count = 0
       THEN UNCHANGED queueVars
       ELSE /\ queue_buf' = [i \in Slots |->
                                IF i = head_i THEN queue_buf[i] ELSE NoBlock]
            /\ tail_i' = (head_i + 1) % QueueCapacity
            /\ q_count' = 1
            /\ UNCHANGED head_i
    /\ pc_halt' = "idle"
    /\ last_op' = "Halt_return"
    /\ halts_in_row' = IF halts_in_row < 2 THEN halts_in_row + 1 ELSE 2
    /\ flush_depth' = q_count
    /\ UNCHANGED <<coreVars, tickerVars, pc_stop, timerVars, pushHist,
                   isr_in_halt, halt_inflight, enabled_axes, idleHist>>
    /\ halt_snap' = HaltView'
    /\ UNCHANGED <<pinVars, inputVars, inputHist>>

\* m_conveyor->flush_queue(), and the return
HaltFlush ==
    /\ pc_halt = "flush"
    /\ flush_queue
    /\ pc_halt' = "idle"
    /\ last_op' = "Halt_return"
    /\ halts_in_row' = IF halts_in_row < 2 THEN halts_in_row + 1 ELSE 2
    /\ flush_depth' = q_count
    /\ UNCHANGED <<coreVars, tickerVars, pc_stop, timerVars, pushHist,
                   isr_in_halt, halt_inflight, enabled_axes, idleHist>>
    /\ halt_snap' = HaltView'
    /\ UNCHANGED <<pinVars, inputVars, inputHist>>

(* ================= foreground: StepTicker and Conveyor ================ *)
\* the producer's push of the next block
Push ==
    /\ FgReady
    /\ next_id <= MaxBlocks
    /\ push_block(next_id)
    /\ next_id' = IF PushAccepted THEN next_id + 1 ELSE next_id
    /\ rejected' = (rejected \/ ~PushAccepted)
    /\ FgOther(IF PushAccepted THEN "push_success" ELSE "push_queue_full")
    /\ UNCHANGED <<coreVars, tickerVars, pc_halt, pc_stop, timerVars,
                   last_popped, enabled_axes, idleHist>>
    /\ UNCHANGED <<pinVars, inputVars, inputHist>>

EnableMotor(axis) ==
    /\ FgReady
    /\ motor_enable_bits' = EnableMotorBits(motor_enable_bits, axis)
    /\ enabled_axes' = enabled_axes \cup {axis}
    /\ FgOther("EnableMotor")
    /\ UNCHANGED <<coreVars, current_block, steps_done, ticker_started,
                   queueVars, pc_halt, pc_stop, timerVars, pushHist, idleHist>>
    /\ UNCHANGED <<pinVars, inputVars, inputHist>>

DisableMotor(axis) ==
    /\ FgReady
    /\ motor_enable_bits' = DisableMotorBits(motor_enable_bits, axis)
    /\ enabled_axes' = enabled_axes \ {axis}
    /\ FgOther("DisableMotor")
    /\ UNCHANGED <<coreVars, current_block, steps_done, ticker_started,
                   queueVars, pc_halt, pc_stop, timerVars, pushHist, idleHist>>
    /\ UNCHANGED <<pinVars, inputVars, inputHist>>

DisableAllMotors ==
    /\ FgReady
    /\ motor_enable_bits' = DisableAllMotorsBits
    /\ enabled_axes' = {}
    /\ FgOther("DisableAllMotors")
    /\ UNCHANGED <<coreVars, current_block, steps_done, ticker_started,
                   queueVars, pc_halt, pc_stop, timerVars, pushHist, idleHist>>
    /\ UNCHANGED <<pinVars, inputVars, inputHist>>

\* EnableStepperDrivers(enable): the shared STEP_ENABLE line is driven to
\* the requested level; the per-axis motor bits are another member
EnableStepperDrivers(enable) ==
    /\ FgReady
    /\ stepper_drivers_enabled' = enable
    /\ FgOther(IF enable THEN "EnableStepperDrivers_true"
               ELSE "EnableStepperDrivers_false")
    /\ UNCHANGED <<m_startup_finished, m_system_halted,
                   stepper_drivers_reset, tickerVars, queueVars, pc_halt,
                   pc_stop, timerVars, pushHist, enabled_axes, idleHist>>
    /\ UNCHANGED <<pinVars, inputVars, inputHist>>

(* ======================== step-tick interrupt ========================= *)
\* a tick that takes the newest queued block instead of the front
TickBlockNewest ==
    IF current_block # NoBlock THEN current_block
    ELSE IF q_count = 0 THEN NoBlock
         ELSE queue_buf[(tail_i + QueueCapacity - 1) % QueueCapacity]

\* the block this tick works on: the cached one, else the queue's front
TickBlock == IF current_block = NoBlock THEN peek_front ELSE current_block

StepsAfterTick == (IF current_block = NoBlock THEN 0 ELSE steps_done) + 1

\* the axes a block moves: every machine axis takes a step on each tick
BlockAxesMask == Pow2(MaxAxis + 1) - 1

\* direction_bits of a block: consecutive blocks travel in opposite directions
BlockDirectionBits(id) == IF id % 2 = 1 THEN 0 ELSE BlockAxesMask

\* the step edges of one tick: the stepped axes' pins raised and marked for
\* the next unstep tick, the direction pins driven to the block's direction
EmitStep(id) ==
    /\ dir_pins' = BlockDirectionBits(id)
    /\ step_pins' = BitOr8(step_pins, BlockAxesMask)
    /\ unstep_bits' = BitOr8(unstep_bits, BlockAxesMask)

\* a tick that steps whatever it finds, a block or none
step_tick_pulsing_when_idle ==
    /\ ticker_started
    /\ isr_in_halt' = IF pc_halt = "idle" THEN isr_in_halt
                      ELSE isr_in_halt \cup {pc_halt}
    /\ EmitStep(TickBlock)
    /\ IF TickBlock = NoBlock
       THEN UNCHANGED <<current_block, steps_done, queueVars, last_popped>>
       ELSE IF StepsAfterTick < StepsPerBlock
            THEN /\ current_block' = TickBlock
                 /\ steps_done' = StepsAfterTick
                 /\ UNCHANGED <<queueVars, last_popped>>
            ELSE /\ advance_front
                 /\ last_popped' = IF q_count = 0 THEN last_popped
                                   ELSE peek_front
                 /\ current_block' = NoBlock
                 /\ steps_done' = 0
    /\ UNCHANGED <<coreVars, motor_enable_bits, ticker_started, pc_halt,
                   pc_stop, timerVars, next_id, rejected, last_op, halt_snap,
                   halts_in_row, halt_inflight, flush_depth, enabled_axes,
                   idleHist, inputVars, inputHist>>

\* step_tick(): with no block cached the front of the queue is taken; with
\* none there either the tick does nothing; else the block is stepped, and
\* with its last step removed from the queue and the cached reference cleared
step_tick ==
    /\ ticker_started
    /\ isr_in_halt' = IF pc_halt = "idle" THEN isr_in_halt
                      ELSE isr_in_halt \cup {pc_halt}
    /\ IF TickBlock = NoBlock
       THEN UNCHANGED <<current_block, steps_done, queueVars, last_popped,
                        pinVars>>
       ELSE IF StepsAfterTick < StepsPerBlock
            THEN /\ current_block' = TickBlock
                 /\ steps_done' = StepsAfterTick
                 /\ EmitStep(TickBlock)
                 /\ UNCHANGED <<queueVars, last_popped>>
            ELSE /\ advance_front
                 /\ last_popped' = IF q_count = 0 THEN last_popped
                                   ELSE peek_front
                 /\ current_block' = NoBlock
                 /\ steps_done' = 0
                 /\ EmitStep(TickBlock)
    /\ UNCHANGED <<coreVars, motor_enable_bits, ticker_started, pc_halt,
                   pc_stop, timerVars, next_id, rejected, last_op, halt_snap,
                   halts_in_row, halt_inflight, flush_depth, enabled_axes,
                   idleHist, inputVars, inputHist>>

\* unstep_tick(): the pulses marked in unstep_bits are lowered
unstep_tick ==
    /\ ticker_started
    /\ step_pins' = BitAnd8(step_pins, BitNot8(unstep_bits))
    /\ unstep_bits' = 0
    /\ UNCHANGED <<coreVars, tickerVars, queueVars, pc_halt, pc_stop,
                   timerVars, pushHist, last_op, haltHist, enabled_axes,
                   idleHist, dir_pins, inputVars, inputHist>>

(* ===================== foreground: the idle timer ===================== *)
\* StartStepperIdleTimer(): xTimerStart(m_stepper_idle_timer, 0)
StartStepperIdleTimer ==
    /\ FgReady
    /\ timer_cmd_queue' = PostCmd(timer_cmd_queue, <<"idle", "START">>)
    /\ idle_armed' = TRUE
    /\ stop_in_force' = FALSE
    /\ idle_fires' = 0
    /\ idle_epoch' = 1 - idle_epoch
    /\ FgOther("StartStepperIdleTimer")
    /\ UNCHANGED <<coreVars, tickerVars, queueVars, pc_halt, pc_stop,
                   idle_timer_active, startup_timer_active,
                   buttons_timer_active, daemon_draining, pushHist,
                   enabled_axes>>
    /\ UNCHANGED <<pinVars, inputVars, inputHist>>

\* StopStepperIdleTimer(), first statement: xTimerReset(m_stepper_idle_timer, 0)
StopStepperIdleTimerReset ==
    /\ FgReady
    /\ timer_cmd_queue' = PostCmd(timer_cmd_queue, <<"idle", "RESET">>)
    /\ pc_stop' = "stop"
    /\ idle_armed' = FALSE
    /\ stop_in_force' = FALSE
    /\ idle_fires' = 0
    /\ UNCHANGED idle_epoch
    /\ FgOther("StopStepperIdleTimer")
    /\ UNCHANGED <<coreVars, tickerVars, queueVars, pc_halt,
                   idle_timer_active, startup_timer_active,
                   buttons_timer_active, daemon_draining, pushHist,
                   enabled_axes>>
    /\ UNCHANGED <<pinVars, inputVars, inputHist>>

\* StopStepperIdleTimer(), second statement: xTimerStop(m_stepper_idle_timer, 0),
\* and the return
StopStepperIdleTimerStop ==
    /\ pc_stop = "stop"
    /\ timer_cmd_queue' = PostCmd(timer_cmd_queue, <<"idle", "STOP">>)
    /\ pc_stop' = "idle"
    /\ stop_in_force' = TRUE
    /\ last_op' = "StopStepperIdleTimer_return"
    /\ UNCHANGED <<coreVars, tickerVars, queueVars, pc_halt,
                   idle_timer_active, startup_timer_active,
                   buttons_timer_active, daemon_draining, pushHist, haltHist,
                   enabled_axes, idle_armed, idle_fires, idle_epoch>>
    /\ UNCHANGED <<pinVars, inputVars, inputHist>>

(* ========================= timer daemon task ========================== *)
\* the daemon takes the oldest command: start and reset make the timer
\* active, stop and delete make it dormant
ActiveAfter(timer, was) ==
    LET c == Head(timer_cmd_queue) IN
    IF c[1] # timer THEN was
    ELSE IF c[2] \in {"START", "RESET"} THEN TRUE ELSE FALSE

\* the daemon's loop over the received commands, one command a step; it
\* leaves the loop when the queue is empty
TimerDaemonCommand ==
    /\ timer_cmd_queue # <<>>
    /\ timer_cmd_queue' = Tail(timer_cmd_queue)
    /\ daemon_draining' = (Tail(timer_cmd_queue) # <<>>)
    /\ idle_timer_active' = ActiveAfter("idle", idle_timer_active)
    /\ startup_timer_active' = ActiveAfter("startup", startup_timer_active)
    /\ buttons_timer_active' = ActiveAfter("buttons", buttons_timer_active)
    /\ idle_fires' = IF Head(timer_cmd_queue) \in
                          {<<"idle", "START">>, <<"idle", "RESET">>}
                     THEN 0 ELSE idle_fires
    /\ UNCHANGED <<coreVars, tickerVars, queueVars, pc_halt, pc_stop,
                   pushHist, last_op, haltHist, enabled_axes, idle_armed,
                   stop_in_force, idle_epoch>>
    /\ UNCHANGED <<pinVars, inputVars, inputHist>>

\* an idle callback that inverts the driver enable line
steppers_idle_timeout_callback_toggling ==
    /\ idle_timer_active
    /\ ~daemon_draining
    /\ idle_timer_active' = FALSE
    /\ stepper_drivers_enabled' = ~stepper_drivers_enabled
    /\ idle_fires' = IF idle_fires < MaxFires THEN idle_fires + 1 ELSE MaxFires
    /\ last_op' = "idle_timeout"
    /\ UNCHANGED <<m_startup_finished, m_system_halted,
                   stepper_drivers_reset, tickerVars, queueVars, pc_halt,
                   pc_stop, timer_cmd_queue, startup_timer_active,
                   buttons_timer_active, daemon_draining, pushHist, haltHist,
                   enabled_axes, idle_armed, stop_in_force, idle_epoch>>
    /\ UNCHANGED <<pinVars, inputVars, inputHist>>

\* expiry of the one-shot idle timer, taken by the daemon before it reads
\* the command queue: steppers_idle_timeout_callback
steppers_idle_timeout_callback ==
    /\ idle_timer_active
    /\ ~daemon_draining
    /\ idle_timer_active' = FALSE
    /\ stepper_drivers_enabled' = FALSE
    /\ idle_fires' = IF idle_fires < MaxFires THEN idle_fires + 1 ELSE MaxFires
    /\ last_op' = "idle_timeout"
    /\ UNCHANGED <<m_startup_finished, m_system_halted,
                   stepper_drivers_reset, tickerVars, queueVars, pc_halt,
                   pc_stop, timer_cmd_queue, startup_timer_active,
                   buttons_timer_active, daemon_draining, pushHist, haltHist,
                   enabled_axes, idle_armed, stop_in_force, idle_epoch>>
    /\ UNCHANGED <<pinVars, inputVars, inputHist>>

\* expiry of the one-shot startup timer: delayed_startup_callback
delayed_startup_callback ==
    /\ startup_timer_active
    /\ ~daemon_draining
    /\ startup_timer_active' = FALSE
    /\ stepper_drivers_reset' = FALSE
    /\ m_startup_finished' = TRUE
    /\ timer_cmd_queue' = PostCmd(timer_cmd_queue, <<"startup", "DELETE">>)
    /\ last_op' = "delayed_startup"
    /\ UNCHANGED <<m_system_halted, stepper_drivers_enabled, tickerVars,
                   queueVars, pc_halt, pc_stop, idle_timer_active,
                   buttons_timer_active, daemon_draining, pushHist, haltHist,
                   enabled_axes, idleHist>>
    /\ UNCHANGED <<pinVars, inputVars, inputHist>>

(* ==================== buttons timer: the user buttons ================= *)
\* a counter that stays at its limit when the event is set
DebounceAfterSaturating(cnt, is_pressed) ==
    IF is_pressed
    THEN IF cnt < DebounceLimit THEN cnt + 1 ELSE cnt
    ELSE cnt

\* one button's counter after a poll that read it pressed or released: a
\* released read leaves it as it is

DebounceAfter(cnt, is_pressed) ==
    IF is_pressed
    THEN IF cnt < DebounceLimit THEN cnt + 1 ELSE 0
    ELSE cnt

\* the poll sets the button's event: read pressed with the counter at its
\* limit
EventSet(cnt, is_pressed) == is_pressed /\ ~(cnt < DebounceLimit)

\* the callback's body past the startup test; pressed is the set of buttons
\* whose input bit reads 0
PollButtons(pressed) ==
    /\ debounce_cntrs' = [b \in Buttons |->
                              DebounceAfter(debounce_cntrs[b], b \in pressed)]
    /\ raised' = {b \in Buttons : EventSet(debounce_cntrs[b], b \in pressed)}
    /\ m_input_events_group' = m_input_events_group \cup raised'
    /\ polls' = polls + 1
    /\ pressed_run' = [b \in Buttons |->
                           IF b \notin pressed THEN 0
                           ELSE IF pressed_run[b] <= DebounceLimit
                                THEN pressed_run[b] + 1
                                ELSE pressed_run[b]]
    /\ released_seen' = released_seen \cup (Buttons \ pressed)
    /\ last_op' = "read_user_buttons"

\* a callback that polls the buttons whether the startup has finished or not
read_user_buttons_callback_unguarded(pressed) ==
    /\ buttons_timer_active
    /\ ~daemon_draining
    /\ polls < MaxPolls
    /\ last_levels' = pressed
    /\ PollButtons(pressed)
    /\ UNCHANGED <<coreVars, tickerVars, queueVars, pc_halt, pc_stop,
                   timerVars, pushHist, haltHist, enabled_axes, idleHist,
                   pinVars, last_notify>>

\* expiry of the auto-reload buttons timer: read_user_buttons_callback
read_user_buttons_callback(pressed) ==
    /\ buttons_timer_active
    /\ ~daemon_draining
    /\ polls < MaxPolls
    /\ last_levels' = pressed
    /\ IF m_startup_finished = FALSE
       THEN /\ last_op' = "read_user_buttons_return"
            /\ UNCHANGED <<inputVars, polls, pressed_run, released_seen,
                           raised>>
       ELSE PollButtons(pressed)
    /\ UNCHANGED <<coreVars, tickerVars, queueVars, pc_halt, pc_stop,
                   timerVars, pushHist, haltHist, enabled_axes, idleHist,
                   pinVars, last_notify>>

(* ======================= EXTI interrupt: events ======================= *)
\* values of it_evt_src: no line, each of EXTI6, EXTI7, EXTI8, the three
\* together, and a line the function does not look at
EventSources ==
    {0, 1, Pow2(6), Pow2(7), Pow2(8), Pow2(6) + Pow2(7) + Pow2(8)}

PinLevels == {"GPIO_PIN_RESET", "GPIO_PIN_SET"}

\* the events the statements left in comments would set
EventsInComments(it_evt_src, global_fault, lim_x) ==
    (IF BitOf(it_evt_src, 6) = 1
     THEN IF global_fault # "GPIO_PIN_SET" THEN {"STEPPER_FAULT_EVENT"}
          ELSE IF lim_x # "GPIO_PIN_RESET" THEN {"LIMIT_X_MIN_EVENT"}
               ELSE {}
     ELSE {})
    \cup (IF BitOf(it_evt_src, 7) = 1 THEN {"LIMIT_Y_MIN_EVENT"} ELSE {})
    \cup (IF BitOf(it_evt_src, 8) = 1 THEN {"LIMIT_Z_MIN_EVENT"} ELSE {})

\* NotifyOfEvent with the statements in comments put back
NotifyOfEventSettingBits(it_evt_src, global_fault, lim_x) ==
    /\ last_notify' = <<it_evt_src, global_fault, lim_x, "pdFALSE">>
    /\ m_input_events_group' =
           m_input_events_group
               \cup EventsInComments(it_evt_src, global_fault, lim_x)
    /\ UNCHANGED <<coreVars, tickerVars, queueVars, pc_halt, pc_stop,
                   timerVars, pushHist, last_op, haltHist, enabled_axes,
                   idleHist, pinVars, debounce_cntrs, polls, pressed_run,
                   released_seen, raised, last_levels>>

\* NotifyOfEvent(it_evt_src), called in interrupt context: the two pins are
\* read, every branch is empty, pdFALSE is returned
NotifyOfEvent(it_evt_src, global_fault, lim_x) ==
    /\ last_notify' = <<it_evt_src, global_fault, lim_x, "pdFALSE">>
    /\ UNCHANGED <<coreVars, tickerVars, queueVars, pc_halt, pc_stop,
                   timerVars, pushHist, last_op, haltHist, enabled_axes,
                   idleHist, pinVars, inputVars, polls, pressed_run,
                   released_seen, raised, last_levels>>

(* ============================ specifications ========================== *)
\* the state the constructors leave: nothing queued, nothing halted, the
\* two timers started by the MachineCore constructor waiting in the timer
\* command queue, the driver pins at the level the board gives them
Init ==
    /\ m_startup_finished = FALSE
    /\ m_system_halted = FALSE
    /\ stepper_drivers_enabled \in BOOLEAN
    /\ stepper_drivers_reset \in BOOLEAN
    /\ motor_enable_bits = 0
    /\ current_block = NoBlock
    /\ steps_done = 0
    /\ ticker_started = FALSE
    /\ queue_buf = [i \in Slots |-> NoBlock]
    /\ head_i = 0
    /\ tail_i = 0
    /\ q_count = 0
    /\ pc_halt = "idle"
    /\ pc_stop = "idle"
    /\ timer_cmd_queue = << <<"startup", "START">>, <<"buttons", "START">> >>
    /\ idle_timer_active = FALSE
    /\ startup_timer_active = FALSE
    /\ buttons_timer_active = FALSE
    /\ daemon_draining = FALSE
    /\ next_id = 1
    /\ last_popped = 0
    /\ rejected = FALSE
    /\ last_op = "constructed"
    /\ halt_snap = <<>>
    /\ halts_in_row = 0
    /\ isr_in_halt = {}
    /\ halt_inflight = FALSE
    /\ enabled_axes = {}
    /\ idle_armed = FALSE
    /\ stop_in_force = FALSE
    /\ idle_fires = 0
    /\ idle_epoch = 0
    /\ flush_depth = -1
    /\ step_pins = 0
    /\ dir_pins = 0
    /\ unstep_bits = 0
    /\ debounce_cntrs = [b \in Buttons |-> 0]
    /\ m_input_events_group = {}
    /\ polls = 0
    /\ pressed_run = [b \in Buttons |-> 0]
    /\ released_seen = {}
    /\ raised = {}
    /\ last_levels = {}
    /\ last_notify = <<>>

Next ==
    \/ Initialize
    \/ OnIdle
    \/ HaltBegin
    \/ HaltDrivers
    \/ HaltMotors
    \/ HaltFlush
    \/ Push
    \/ \E axis \in MachineAxes : EnableMotor(axis)
    \/ \E axis \in MachineAxes : DisableMotor(axis)
    \/ DisableAllMotors
    \/ \E enable \in BOOLEAN : EnableStepperDrivers(enable)
    \/ step_tick
    \/ TimerDaemonCommand
    \/ delayed_startup_callback

Spec == Init /\ [][Next]_vars

\* the Conveyor between its producer and the step-tick interrupt
QueueNext ==
    \/ Initialize
    \/ Push
    \/ step_tick
    \/ unstep_tick

QueueSpec == Init /\ [][QueueNext]_vars

\* the StepTicker motor and driver enables, over every axis of the mask
MotorNext ==
    \/ \E axis \in AllAxes : EnableMotor(axis)
    \/ \E axis \in AllAxes : DisableMotor(axis)
    \/ DisableAllMotors
    \/ \E enable \in BOOLEAN : EnableStepperDrivers(enable)

MotorSpec == Init /\ [][MotorNext]_vars

\* the idle timer: its two foreground calls, the timer daemon, and Halt()
TimerNext ==
    \/ StartStepperIdleTimer
    \/ StopStepperIdleTimerReset
    \/ StopStepperIdleTimerStop
    \/ TimerDaemonCommand
    \/ steppers_idle_timeout_callback
    \/ delayed_startup_callback
    \/ HaltBegin
    \/ HaltDrivers
    \/ HaltMotors
    \/ HaltFlush
    \/ \E enable \in BOOLEAN : EnableStepperDrivers(enable)

TimerSpec == Init /\ [][TimerNext]_vars

\* the user buttons: Initialize() and the timer daemon with the startup and
\* buttons timers
ButtonsNext ==
    \/ Initialize
    \/ TimerDaemonCommand
    \/ delayed_startup_callback
    \/ \E pressed \in SUBSET Buttons : read_user_buttons_callback(pressed)

ButtonsSpec == Init /\ [][ButtonsNext]_vars

\* the EXTI event notification against the machine state: the producer, the
\* motor enables and Halt()
EventNext ==
    \/ \E it_evt_src \in EventSources, global_fault \in PinLevels,
          lim_x \in PinLevels :
           NotifyOfEvent(it_evt_src, global_fault, lim_x)
    \/ HaltBegin
    \/ HaltDrivers
    \/ HaltMotors
    \/ HaltFlush
    \/ Push
    \/ \E axis \in MachineAxes : EnableMotor(axis)

EventSpec == Init /\ [][EventNext]_vars

\* the same, where the daemon task gets to run, an active timer's period
\* elapses, and a started StopStepperIdleTimer() or Halt() runs to its return
LiveTimerSpec ==
    /\ TimerSpec
    /\ WF_vars(TimerDaemonCommand)
    /\ WF_vars(steppers_idle_timeout_callback)
    /\ WF_vars(delayed_startup_callback)
    /\ WF_vars(StopStepperIdleTimerStop)
    /\ WF_vars(HaltDrivers)
    /\ WF_vars(HaltMotors)
    /\ WF_vars(HaltFlush)

(* =============================== claims =============================== *)
\* the step that is Halt()'s return
HaltReturns == pc_halt = "flush" /\ pc_halt' = "idle"

\* a step of Halt() itself
HaltStatement == pc_halt' # pc_halt

\* Halt() has returned and the foreground has called nothing since
HaltedAndQuiet == pc_halt = "idle" /\ halt_snap # <<>>

C2_HaltIdempotent ==
    [][ (HaltReturns /\ halt_snap # <<>>) => HaltView' = halt_snap ]_vars

\* C2 witness: two Halt() calls in a row have returned
C2_Witness == halts_in_row = 2 /\ last_op = "Halt_return"

\* C3: with the step-tick interrupt coming in between any two statements of
\* Halt(), once Halt() has returned the queue is empty, motor_enable_bits
\* is 0, and the ticker starts no block and removes none.
C3_HaltPreemptionSafe ==
    /\ [](HaltedAndQuiet =>
            /\ q_count = 0
            /\ QueueSeq = <<>>
            /\ motor_enable_bits = 0)
    /\ [][ HaltedAndQuiet =>
            /\ (current_block = NoBlock => current_block' = NoBlock)
            /\ (current_block # NoBlock => current_block' \in {current_block, NoBlock})
            /\ last_popped' = last_popped ]_vars

\* C3 witness: Halt() has returned after the step-tick interrupt came in at
\* each of its statements, called with a block in flight, and a pushed
\* block was flushed instead of removed by the ticker
C3_Witness ==
    /\ HaltedAndQuiet
    /\ isr_in_halt = {"drivers", "motors", "flush"}
    /\ halt_inflight
    /\ next_id > last_popped + 1

\* the driver pins
DriverState == <<stepper_drivers_enabled, stepper_drivers_reset>>

\* C4: EnableStepperDrivers(false) leaves the drivers disabled, and run on
\* drivers that are already disabled (by Halt(), by an earlier idle timeout
\* or by an earlier call) it leaves the driver state as it was; this holds
\* for the foreground call and for the call the idle-timeout callback makes.
C4_DisableDriversIdempotent ==
    /\ [][ (steppers_idle_timeout_callback \/ EnableStepperDrivers(FALSE)) =>
             /\ stepper_drivers_enabled' = FALSE
             /\ (stepper_drivers_enabled = FALSE =>
                    /\ DriverState' = DriverState
                    /\ motor_enable_bits' = motor_enable_bits) ]_vars
    /\ [](last_op \in {"idle_timeout", "EnableStepperDrivers_false"} =>
            stepper_drivers_enabled = FALSE)

\* C4 witness: the idle-timeout callback has run after Halt() returned, with
\* no foreground call in between
C4_Witness ==
    /\ last_op = "idle_timeout"
    /\ HaltedAndQuiet
    /\ m_system_halted
    /\ stepper_drivers_enabled = FALSE

\* an axis driver is energized when its bit of the motor mask is set and the
\* shared STEP_ENABLE line enables the drivers
AxisDriverEnabled(axis) ==
    stepper_drivers_enabled /\ BitOf(motor_enable_bits, axis) = 1

C8_OnIdleOnlyWhenQueueEmpty ==
    last_op = "on_idle" => (q_count = 0 /\ current_block = NoBlock)

\* C8 as amended: Conveyor::on_idle() is called through OnIdle() only once
\* m_startup_finished is true; the queue may hold blocks and the ticker may
\* be stepping one.
C8_OnIdleOnlyAfterStartup ==
    last_op = "on_idle" => m_startup_finished = TRUE

\* C8 witness: on_idle() was called with blocks queued and one being stepped
C8_Witness ==
    /\ last_op = "on_idle"
    /\ q_count > 1
    /\ current_block # NoBlock

\* C9: the blocks in the queue are the pushed blocks not yet removed, in
\* push order; the ticker works on the front block, and each removal takes
\* the block pushed right after the one removed before: none skipped,
\* duplicated or reordered.
C9_QueueFifo ==
    /\ [](/\ QueueSeq = [i \in 1 .. q_count |-> last_popped + i]
          /\ next_id = last_popped + q_count + 1
          /\ (current_block # NoBlock => current_block = peek_front))
    /\ [][ q_count' < q_count =>
             /\ last_popped' = last_popped + 1
             /\ TickBlock = last_popped + 1
             /\ q_count' = q_count - 1 ]_vars

\* C9 witness: the queue was filled to capacity and every pushed block has
\* been removed
C9_Witness ==
    /\ rejected
    /\ last_popped = MaxBlocks
    /\ next_id = MaxBlocks + 1
    /\ q_count = 0

\* C10: a push succeeds exactly when fewer than capacity blocks are queued;
\* a refused push changes neither the contents nor the head and tail
\* indices; a removal from a full queue leaves room for the next push.
C10_PushFullUnchanged ==
    [][ /\ Push =>
            IF q_count < QueueCapacity
            THEN /\ last_op' = "push_success"
                 /\ QueueSeq' = Append(QueueSeq, next_id)
                 /\ head_i' = head_i
            ELSE /\ last_op' = "push_queue_full"
                 /\ UNCHANGED <<queue_buf, head_i, tail_i, q_count>>
        /\ (q_count = QueueCapacity /\ last_popped' # last_popped) =>
            q_count' = QueueCapacity - 1
      ]_vars

\* C10 witness: capacity pushes succeeded, a push was refused, and after a
\* removal the next push has succeeded
C10_Witness ==
    /\ rejected
    /\ last_op = "push_success"
    /\ next_id = QueueCapacity + 2
    /\ last_popped = 1

\* C6: after StartStepperIdleTimer(), with no further Start or Stop call,
\* the idle-timeout callback eventually runs, and it runs once only.
C6_IdleTimeoutFiresOnce ==
    /\ \A epoch \in {0, 1} :
          (idle_armed /\ idle_fires = 0 /\ idle_epoch = epoch)
              ~> (idle_fires = 1 \/ ~idle_armed \/ idle_epoch # epoch)
    /\ [](idle_armed => idle_fires <= 1)

\* C7: from the return of StopStepperIdleTimer() to the next
\* StartStepperIdleTimer() call the idle-timeout callback does not run, and
\* once the timer service has taken every command the timer is dormant.
C7_NoTimeoutAfterStop ==
    /\ [][ stop_in_force => ~steppers_idle_timeout_callback ]_vars
    /\ [](stop_in_force /\ timer_cmd_queue = <<>> => ~idle_timer_active)

\* C11: whatever the depth of the queue, 0 up to its capacity,
\* flush_queue() followed immediately by peek_front() returns none; Halt()
\* returns with the Conveyor in that state.
C11_FlushThenPeekEmpty ==
    [][ HaltReturns =>
            /\ q_count \in 0 .. QueueCapacity
            /\ peek_front' = NoBlock
            /\ q_count' = 0 ]_vars

\* C11 witness: Halt() has flushed a full queue and returned
C11_Witness ==
    /\ last_op = "Halt_return"
    /\ flush_depth = QueueCapacity
    /\ peek_front = NoBlock

\* the tick finds no block: nothing cached and nothing queued
StarvedQueue == TickBlock = NoBlock

\* C12: a StepTicker tick with no block available (empty queue, no cached
\* current_block) has no side effect: no step or direction pin changes, no
\* bit is set in unstep_bits, the step counter and the cached block stay as
\* they are, and the queue is unchanged.
C12_StarvedTickNoEffect ==
    [][ (step_tick /\ StarvedQueue) =>
            /\ UNCHANGED <<step_pins, dir_pins, unstep_bits>>
            /\ UNCHANGED <<steps_done, current_block>>
            /\ UNCHANGED queueVars ]_vars

\* C12 witness: the queue has run dry after motion, the pulse of the last
\* step is still high and marked; the idle tick is taken in this state and
\* leaves it as it is
C12_Witness ==
    /\ ticker_started
    /\ StarvedQueue
    /\ q_count = 0
    /\ last_popped > 0
    /\ unstep_bits # 0
    /\ step_pins # 0

\* the ticker has taken up a block at least once
MotionStarted == current_block # NoBlock \/ last_popped > 0

\* the queued blocks behind the front
PendingBlocks == {QueueSeq[i] : i \in 2 .. q_count}

NotifyOfEventCalled ==
    \E it_evt_src \in EventSources, global_fault \in PinLevels,
       lim_x \in PinLevels :
        NotifyOfEvent(it_evt_src, global_fault, lim_x)

\* C14: NotifyOfEvent(it_evt_src) returns pdFALSE, sets no bit in
\* m_input_events_group and leaves m_system_halted, the motor and driver
\* state and the queue as they are, for every it_evt_src and every level of
\* the global-fault and limit-X pins; a fault or limit event does not start
\* Halt() from here.
C14_NotifyOfEventNoEffect ==
    [][ NotifyOfEventCalled =>
            /\ last_notify'[4] = "pdFALSE"
            /\ UNCHANGED m_input_events_group
            /\ UNCHANGED <<m_system_halted, pc_halt>>
            /\ UNCHANGED <<stepper_drivers_enabled, stepper_drivers_reset,
                           motor_enable_bits>>
            /\ UNCHANGED queueVars ]_vars

\* C14 witness: the last call reported EXTI6 with the global-fault pin low,
\* the machine not halted, a motor enabled and blocks queued; nothing is set
\* in the event group
C14_Witness ==
    /\ last_notify # <<>>
    /\ BitOf(last_notify[1], 6) = 1
    /\ last_notify[2] = "GPIO_PIN_RESET"
    /\ last_notify[4] = "pdFALSE"
    /\ m_system_halted = FALSE
    /\ motor_enable_bits # 0
    /\ q_count > 0
    /\ m_input_events_group = {}

\* C15: once Initialize() and the delayed-startup callback have both run, in
\* either order, the driver reset asserted by Initialize() is released:
\* m_startup_finished is never true with the drivers still held in reset by
\* Initialize().
C15_ResetReleasedAfterStartup ==
    (ticker_started /\ m_startup_finished) => stepper_drivers_reset = FALSE

\* the pressed reads in a row an event stands for
PressedPollsForEvent == DebounceLimit + 1

\* C16: a button event is set only by a poll that is the third in a row to
\* read that button pressed; a poll that reads it released restarts the
\* count, so pressed reads with released reads between them set no event.
C16_EventOnlyAfterThreeInARow ==
    \A b \in raised : pressed_run[b] >= PressedPollsForEvent

\* a poll of the buttons timer, whatever the levels
ButtonsPolled ==
    \E pressed \in SUBSET Buttons : read_user_buttons_callback(pressed)

\* C17: while m_startup_finished is false a run of
\* read_user_buttons_callback sets no bit in m_input_events_group and changes
\* no debounce counter, whatever the button levels; m_startup_finished
\* becomes true in delayed_startup_callback only, and once true stays true.
C17_NoPollBeforeStartup ==
    [][ /\ (ButtonsPolled /\ m_startup_finished = FALSE) =>
               UNCHANGED <<m_input_events_group, debounce_cntrs>>
        /\ m_startup_finished' # m_startup_finished =>
               (delayed_startup_callback /\ m_startup_finished' = TRUE)
      ]_vars

\* C17 witness: the buttons timer expired before the startup timer, the
\* callback found all three buttons pressed and returned at the startup test
C17_Witness ==
    /\ m_startup_finished = FALSE
    /\ last_op = "read_user_buttons_return"
    /\ last_levels = Buttons
    /\ m_input_events_group = {}
    /\ \A b \in Buttons : debounce_cntrs[b] = 0

\* a call of OnIdle() that returned at the startup test, and one that went
\* on to its one call of Conveyor::on_idle()
OnIdleReturnedEarly == OnIdle /\ last_op' = "OnIdle_return"
OnIdleCalledConveyor == OnIdle /\ last_op' = "on_idle"

\* C18: a call of OnIdle() made before delayed_startup_callback has run
\* (m_startup_finished false) returns without calling Conveyor::on_idle();
\* every call made afterwards calls it, once, whether Halt() has been
\* called or not.
C18_OnIdleCallsOncePerCall ==
    [][ OnIdle =>
            /\ m_startup_finished = FALSE => OnIdleReturnedEarly
            /\ m_startup_finished = TRUE => OnIdleCalledConveyor
            /\ (m_startup_finished = TRUE /\ m_system_halted) =>
                   last_op' = "on_idle" ]_vars

\* C18 witness: OnIdle() was called after the startup and after a Halt(),
\* and called Conveyor::on_idle()
C18_Witness ==
    /\ last_op = "on_idle"
    /\ m_startup_finished = TRUE
    /\ m_system_halted
    /\ pc_halt = "idle"
    /\ q_count = 0

\* C19: each debounce counter stays in 0..2; a button read pressed on every
\* poll since the startup has its event set on every third poll, the polls
\* 3, 6, ..., its counter being back at 0 after each; and a poll changes a
\* button's counter and event bit by that button's own level and counter
\* only: read released, nothing of it changes, read pressed, its counter
\* goes one up modulo 3 and its event is set with the wrap, whatever the
\* other two buttons read.
C19_DebouncePeriodThree ==
    /\ [](\A b \in Buttons : debounce_cntrs[b] \in 0 .. DebounceLimit)
    /\ [](\A b \in Buttons \ released_seen :
             polls > 0 =>
                 /\ debounce_cntrs[b] = polls % PressedPollsForEvent
                 /\ b \in raised <=> polls % PressedPollsForEvent = 0)
    /\ [][ (ButtonsPolled /\ m_startup_finished) =>
              \A b \in Buttons :
                 IF b \in last_levels'
                 THEN /\ debounce_cntrs'[b] =
                            (debounce_cntrs[b] + 1) % PressedPollsForEvent
                      /\ b \in raised' <=> debounce_cntrs'[b] = 0
                      /\ b \in raised' => b \in m_input_events_group'
                 ELSE /\ debounce_cntrs'[b] = debounce_cntrs[b]
                      /\ b \notin raised'
                      /\ b \in m_input_events_group' <=>
                             b \in m_input_events_group ]_vars

\* C19 witness: the sixth poll; BTN_START was pressed on all six and has its
\* event set again, BTN_HOLD was pressed once and BTN_ABORT never
C19_Witness ==
    /\ polls = 2 * PressedPollsForEvent
    /\ "BTN_START_EVENT" \notin released_seen
    /\ "BTN_START_EVENT" \in raised
    /\ debounce_cntrs["BTN_START_EVENT"] = 0
    /\ debounce_cntrs["BTN_HOLD_EVENT"] = 1
    /\ debounce_cntrs["BTN_ABORT_EVENT"] = 0
    /\ m_input_events_group = {"BTN_START_EVENT"}
====
